---- MODULE Spec2Model ----
(***************************************************************************)
(* Model of the Cortex Agent backend proxy (backend/app): the SSE relay    *)
(* and its field filter (agent.py) and the signed session cookie and its   *)
(* guard (auth.py, config.py).                                             *)
(*                                                                         *)
(* Text is modelled as sequences of one-character strings, JSON values as  *)
(* tagged records [t, v].  A dict keeps its items as an ordered sequence   *)
(* of <<key, value>> pairs, as a Python dict keeps insertion order.        *)
(***************************************************************************)
EXTENDS Integers, Sequences, FiniteSets, TLC

VARIABLES
    REMOVE_SQL_FROM_RESPONSE,   \* settings.REMOVE_SQL_FROM_RESPONSE (config.py:21)
    fpc,                        \* position of the filter driver
    fArg,                       \* argument given to filter_event_data
    fOut,                       \* result of filter_event_data(fArg)
    fOut2,                      \* result of filter_event_data(fOut)
    fDepth,                     \* containers put around the scalar of fArg
    sfName,                     \* argument given to should_filter_field
    sfOut,                      \* result of should_filter_field(sfName)
    now,                        \* int(time.time()), the clock the signer reads
    cookie,                     \* the session cookie held by the browser
    issued,                     \* the last login: identity, time, cookie set
    vArg,                       \* the cookie value of the last call since login
    vAt,                        \* clock value at that call
    vOut,                       \* result of verify_session_cookie(vArg) in it
    gOut,                       \* outcome of get_current_user(vArg) in it
    rpc,                        \* position of one request to POST /api/agent/run
    session,                    \* the session cookie of the request
    authUser,                   \* what Depends(get_current_user) returned
    downStatus,                 \* status line sent downstream, 0 while none is
    failure,                    \* the exception that ended the request, if any
    posted,                     \* the upstream POST was issued
    status,                     \* response.status_code, 0 while there is none
    body,                       \* the upstream response body of a rejection
    upstream,                   \* the lines read from response.aiter_lines()
    out,                        \* the chunks yielded to the downstream response
    clientOpen,                 \* the httpx.AsyncClient is open
    responseOpen,               \* the upstream response is open
    errAt,                      \* len(out) when httpx.RequestError was raised
    errMsg                      \* str(e) of that error

filterVars == <<fpc, fArg, fOut, fOut2, fDepth, sfName, sfOut>>
tokenVars == <<now, cookie, issued, vArg, vAt, vOut, gOut>>
relayVars == <<rpc, session, authUser, downStatus, failure, posted, status,
               body, upstream, out, clientOpen, responseOpen, errAt, errMsg>>
vars == <<REMOVE_SQL_FROM_RESPONSE, filterVars, tokenVars, relayVars>>

(***************************************************************************)
(* Bounds                                                                  *)
(***************************************************************************)
MaxDepth == 4       \* nesting depth of the JSON trees given to the filter
MaxDays == 2        \* the clock is read within a second of 0..MaxDays session ages
MaxLines == 2       \* upstream lines read in one relay run

(***************************************************************************)
(* Python str helpers                                                      *)
(***************************************************************************)
WS == {" "}

RECURSIVE lstrip(_)
lstrip(s) ==
    IF s # <<>> /\ Head(s) \in WS THEN lstrip(Tail(s)) ELSE s

RECURSIVE rstrip(_)
rstrip(s) ==
    IF s # <<>> /\ s[Len(s)] \in WS THEN rstrip(SubSeq(s, 1, Len(s) - 1)) ELSE s

strip(s) == rstrip(lstrip(s))

startswith(s, prefix) ==
    Len(s) >= Len(prefix) /\ SubSeq(s, 1, Len(prefix)) = prefix

\* s[n:]
slice_from(s, n) == SubSeq(s, n + 1, Len(s))

Digits == <<"0", "1", "2", "3", "4", "5", "6", "7", "8", "9">>

IsDigit(c) == \E d \in 1..10 : Digits[d] = c

DigitVal(c) == (CHOOSE d \in 1..10 : Digits[d] = c) - 1

\* str(n) for a natural number
RECURSIVE int_str(_)
int_str(n) ==
    IF n < 10 THEN <<Digits[n + 1]>>
    ELSE int_str(n \div 10) \o <<Digits[(n % 10) + 1]>>

(***************************************************************************)
(* JSON values                                                             *)
(***************************************************************************)
JNum(n)  == [t |-> "num",  v |-> n]
JStr(s)  == [t |-> "str",  v |-> s]
JBool(b) == [t |-> "bool", v |-> b]
JNull    == [t |-> "null", v |-> "None"]
JList(e) == [t |-> "list", v |-> e]
JDict(i) == [t |-> "dict", v |-> i]

\* an exception leaving a call
Raise(kind) ==
    [t |-> "raise", v |-> [kind |-> kind, status_code |-> 0, detail |-> <<>>]]

HTTPException(status_code, detail) ==
    [t |-> "raise",
     v |-> [kind |-> "HTTPException", status_code |-> status_code,
            detail |-> detail]]

IsRaise(r) == r.t = "raise"

sql == <<"s", "q", "l">>

(***************************************************************************)
(* json.dumps with the default separators (", " and ": ")                  *)
(***************************************************************************)
RECURSIVE py_encode_string(_)
py_encode_string(s) ==
    IF s = <<>> THEN <<>>
    ELSE (IF Head(s) \in {"\"", "\\"} THEN <<"\\", Head(s)>> ELSE <<Head(s)>>)
         \o py_encode_string(Tail(s))

quoted(s) == <<"\"">> \o py_encode_string(s) \o <<"\"">>

RECURSIVE json_dumps(_, _, _), dumps_list(_, _, _), dumps_dict(_, _, _)
dumps_list(elems, item_sep, key_sep) ==
    IF elems = <<>> THEN <<>>
    ELSE json_dumps(Head(elems), item_sep, key_sep)
         \o (IF Len(elems) > 1 THEN item_sep ELSE <<>>)
         \o dumps_list(Tail(elems), item_sep, key_sep)

dumps_dict(items, item_sep, key_sep) ==
    IF items = <<>> THEN <<>>
    ELSE quoted(Head(items)[1]) \o key_sep
         \o json_dumps(Head(items)[2], item_sep, key_sep)
         \o (IF Len(items) > 1 THEN item_sep ELSE <<>>)
         \o dumps_dict(Tail(items), item_sep, key_sep)

json_dumps(obj, item_sep, key_sep) ==
    CASE obj.t = "num"  -> int_str(obj.v)
      [] obj.t = "str"  -> quoted(obj.v)
      [] obj.t = "bool" -> IF obj.v THEN <<"t", "r", "u", "e">>
                                    ELSE <<"f", "a", "l", "s", "e">>
      [] obj.t = "null" -> <<"n", "u", "l", "l">>
      [] obj.t = "list" ->
            <<"[">> \o dumps_list(obj.v, item_sep, key_sep) \o <<"]">>
      [] obj.t = "dict" ->
            <<"{">> \o dumps_dict(obj.v, item_sep, key_sep) \o <<"}">>

\* json.dumps(obj)
dumps(obj) == json_dumps(obj, <<",", " ">>, <<":", " ">>)

\* json.dumps(obj, separators=(",", ":")), the serializer's compact form
compact_dumps(obj) == json_dumps(obj, <<",">>, <<":">>)

(***************************************************************************)
(* json.loads: a scanner over the text; a failed scan is JSONDecodeError   *)
(***************************************************************************)
ScanFail == [ok |-> FALSE, val |-> JNull, next |-> 0]

ScanOk(val, next) == [ok |-> TRUE, val |-> val, next |-> next]

RECURSIVE skipws(_, _)
skipws(s, i) ==
    IF i <= Len(s) /\ s[i] \in WS THEN skipws(s, i + 1) ELSE i

\* i is the position after the opening quote
RECURSIVE py_scanstring(_, _, _)
py_scanstring(s, i, acc) ==
    IF i > Len(s) THEN ScanFail
    ELSE IF s[i] = "\"" THEN ScanOk(acc, i + 1)
    ELSE IF s[i] = "\\"
         THEN IF i + 1 <= Len(s) /\ s[i + 1] \in {"\"", "\\"}
              THEN py_scanstring(s, i + 2, Append(acc, s[i + 1]))
              ELSE ScanFail
    ELSE py_scanstring(s, i + 1, Append(acc, s[i]))

RECURSIVE scan_digits(_, _, _)
scan_digits(s, i, n) ==
    IF i <= Len(s) /\ IsDigit(s[i])
    THEN scan_digits(s, i + 1, 10 * n + DigitVal(s[i]))
    ELSE ScanOk(JNum(n), i)

scan_number(s, i) ==
    IF s[i] = "0" THEN ScanOk(JNum(0), i + 1) ELSE scan_digits(s, i, 0)

scan_literal(s, i, word, val) ==
    IF i + Len(word) - 1 <= Len(s) /\ SubSeq(s, i, i + Len(word) - 1) = word
    THEN ScanOk(val, i + Len(word))
    ELSE ScanFail

\* d[key] = value on an ordered dict
RECURSIVE dict_set(_, _, _)
dict_set(items, key, value) ==
    IF items = <<>> THEN << <<key, value>> >>
    ELSE IF Head(items)[1] = key THEN << <<key, value>> >> \o Tail(items)
    ELSE <<Head(items)>> \o dict_set(Tail(items), key, value)

RECURSIVE scan_once(_, _), scan_array(_, _, _), scan_object(_, _, _)

\* after an element: "]" ends the array, "," announces the next element
array_next(s, j, acc) ==
    IF j > Len(s) THEN ScanFail
    ELSE IF s[j] = "]" THEN ScanOk(JList(acc), j + 1)
    ELSE IF s[j] = "," THEN scan_array(s, skipws(s, j + 1), acc)
    ELSE ScanFail

array_element(s, r, acc) ==
    IF ~r.ok THEN ScanFail
    ELSE array_next(s, skipws(s, r.next), Append(acc, r.val))

scan_array(s, i, acc) == array_element(s, scan_once(s, i), acc)

\* after a member: "}" ends the object, "," announces the next member
object_next(s, j, acc) ==
    IF j > Len(s) THEN ScanFail
    ELSE IF s[j] = "}" THEN ScanOk(JDict(acc), j + 1)
    ELSE IF s[j] = "," THEN scan_object(s, skipws(s, j + 1), acc)
    ELSE ScanFail

object_value(s, key, r, acc) ==
    IF ~r.ok THEN ScanFail
    ELSE object_next(s, skipws(s, r.next), dict_set(acc, key, r.val))

object_colon(s, key, c, acc) ==
    IF c > Len(s) \/ s[c] # ":" THEN ScanFail
    ELSE object_value(s, key, scan_once(s, skipws(s, c + 1)), acc)

object_key(s, k, acc) ==
    IF ~k.ok THEN ScanFail
    ELSE object_colon(s, k.val, skipws(s, k.next), acc)

scan_object(s, i, acc) ==
    IF i > Len(s) \/ s[i] # "\"" THEN ScanFail
    ELSE object_key(s, py_scanstring(s, i + 1, <<>>), acc)

string_value(r) ==
    IF r.ok THEN ScanOk(JStr(r.val), r.next) ELSE ScanFail

object_open(s, j) ==
    IF j <= Len(s) /\ s[j] = "}" THEN ScanOk(JDict(<<>>), j + 1)
    ELSE scan_object(s, j, <<>>)

array_open(s, j) ==
    IF j <= Len(s) /\ s[j] = "]" THEN ScanOk(JList(<<>>), j + 1)
    ELSE scan_array(s, j, <<>>)

scan_once(s, i) ==
    IF i > Len(s) THEN ScanFail
    ELSE IF s[i] = "\"" THEN string_value(py_scanstring(s, i + 1, <<>>))
    ELSE IF s[i] = "{" THEN object_open(s, skipws(s, i + 1))
    ELSE IF s[i] = "[" THEN array_open(s, skipws(s, i + 1))
    ELSE IF s[i] = "n" THEN scan_literal(s, i, <<"n", "u", "l", "l">>, JNull)
    ELSE IF s[i] = "t" THEN scan_literal(s, i, <<"t", "r", "u", "e">>, JBool(TRUE))
    ELSE IF s[i] = "f" THEN scan_literal(s, i, <<"f", "a", "l", "s", "e">>, JBool(FALSE))
    ELSE IF IsDigit(s[i]) THEN scan_number(s, i)
    ELSE ScanFail

\* the whole text must be one value, surrounded by whitespace at most
decode(s, r) ==
    IF r.ok /\ skipws(s, r.next) > Len(s) THEN r.val
    ELSE Raise("JSONDecodeError")

loads(s) == decode(s, scan_once(s, skipws(s, 1)))

(***************************************************************************)
(* agent.py: should_filter_field, filter_event_data                        *)
(***************************************************************************)
should_filter_field(field_name) ==
    IF REMOVE_SQL_FROM_RESPONSE /\ field_name = sql THEN TRUE ELSE FALSE

RECURSIVE filter_event_data(_), filter_items(_), filter_list(_)

\* the list comprehension of lines 79-82
filter_list(value) ==
    IF value = <<>> THEN <<>>
    ELSE <<IF Head(value).t = "dict" THEN filter_event_data(Head(value))
                                     ELSE Head(value)>>
         \o filter_list(Tail(value))

\* one turn of the loop of lines 73-84: the items added to filtered
filter_item(key, value) ==
    IF key = sql THEN <<>>
    ELSE IF value.t = "dict" THEN << <<key, filter_event_data(value)>> >>
    ELSE IF value.t = "list" THEN << <<key, JList(filter_list(value.v))>> >>
    ELSE << <<key, value>> >>

\* the loop of lines 72-84 over event_data.items()
filter_items(items) ==
    IF items = <<>> THEN <<>>
    ELSE filter_item(Head(items)[1], Head(items)[2]) \o filter_items(Tail(items))

\* faulty variant: the toggle of line 68 is not consulted
filter_event_data_always(event_data) ==
    IF event_data.t # "dict" THEN Raise("AttributeError")
    ELSE JDict(filter_items(event_data.v))

filter_event_data(event_data) ==
    IF ~REMOVE_SQL_FROM_RESPONSE THEN event_data
    ELSE IF event_data.t # "dict" THEN Raise("AttributeError")  \* no .items()
    ELSE JDict(filter_items(event_data.v))

(***************************************************************************)
(* The JSON trees given to the filter                                      *)
(***************************************************************************)
Leaf == JNum(1)

KeyX == <<"x">>

Keys == {sql, KeyX}

TopScalars == {JNum(1), JStr(<<"X">>), JBool(TRUE), JNull}

\* the containers over the trees T: at most two children, one of them a leaf
Containers(T) ==
    {JDict(<<>>), JList(<<>>)}
    \cup {JDict(<< <<k, v>> >>) : k \in Keys, v \in T}
    \cup {JDict(<< <<k, Leaf>>, <<CHOOSE o \in Keys : o # k, v>> >>) :
              k \in Keys, v \in T}
    \cup {JDict(<< <<k, v>>, <<CHOOSE o \in Keys : o # k, Leaf>> >>) :
              k \in Keys, v \in T}
    \cup {JList(<<v>>) : v \in T}
    \cup {JList(<<Leaf, v>>) : v \in T}
    \cup {JList(<<v, Leaf>>) : v \in T}

FieldNames == {sql, KeyX, <<>>, <<"S", "Q", "L">>}

NoValue == [t |-> "none", v |-> "none"]

(***************************************************************************)
(* auth.py: the signed session cookie                                      *)
(*                                                                         *)
(* serializer = URLSafeTimedSerializer(settings.SESSION_SECRET_KEY).  A    *)
(* signed value is payload.timestamp.signature; it is kept as a record of  *)
(* its three parts, the payload being the compact JSON text.  The keyed    *)
(* signature is an ideal MAC: the triple of key, payload and timestamp.    *)
(* The signature part is the unpadded URL-safe base64 text of the MAC: its *)
(* last character carries bits that belong to no byte of the MAC, and the  *)
(* decoder the signer applies before comparing drops them.                 *)
(***************************************************************************)
SESSION_MAX_AGE == 86400

SESSION_SECRET_KEY == "change-me-in-production"

USERNAME == <<"u", "s", "e", "r", "n", "a", "m", "e">>

None == JNull

\* a cookie value that is a signed value of the serializer
Signed(payload, ts, sig) ==
    [t |-> "signed", v |-> [payload |-> payload, ts |-> ts, sig |-> sig]]

\* a cookie value without the serializer's separators
Text(s) == [t |-> "text", v |-> s]

hmac(key, payload, ts) == [key |-> key, payload |-> payload, ts |-> ts]

\* the base64 text of a MAC whose last character has the given spare bits;
\* the encoder writes them as 0
base64_text(mac, spare) == [mac |-> mac, spare |-> spare]

base64_encode(mac) == base64_text(mac, 0)

\* the bytes a base64 text stands for: the spare bits are dropped
base64_decode(text) == text.mac

\* the signer appends the timestamp and the signature of payload and timestamp
sign(payload, ts) ==
    Signed(payload, ts, base64_encode(hmac(SESSION_SECRET_KEY, payload, ts)))

\* serializer.dumps(obj) when the clock reads ts
serializer_dumps(obj, ts) == sign(compact_dumps(obj), ts)

\* the payload of a signed value whose signature and age were accepted
load_payload(obj) ==
    IF IsRaise(obj) THEN Raise("BadPayload") ELSE obj

\* faulty variant: a token is taken as expired a second early
serializer_loads_early(s, max_age) ==
    IF s.t # "signed" THEN Raise("BadSignature")
    ELSE IF base64_decode(s.v.sig)
                # hmac(SESSION_SECRET_KEY, s.v.payload, s.v.ts)
         THEN Raise("BadSignature")
    ELSE IF now - s.v.ts >= max_age \/ now - s.v.ts < 0
         THEN Raise("SignatureExpired")
    ELSE load_payload(loads(s.v.payload))

\* serializer.loads(s, max_age): the signature is checked first, then the
\* age, then the payload is decoded
serializer_loads(s, max_age) ==
    IF s.t # "signed" THEN Raise("BadSignature")
    ELSE IF base64_decode(s.v.sig)
                # hmac(SESSION_SECRET_KEY, s.v.payload, s.v.ts)
         THEN Raise("BadSignature")
    ELSE IF now - s.v.ts > max_age \/ now - s.v.ts < 0
         THEN Raise("SignatureExpired")
    ELSE load_payload(loads(s.v.payload))

\* d.get(key) on a dict
RECURSIVE dict_get(_, _)
dict_get(items, key) ==
    IF items = <<>> THEN None
    ELSE IF Head(items)[1] = key THEN Head(items)[2]
    ELSE dict_get(Tail(items), key)

create_session_cookie(username) ==
    serializer_dumps(JDict(<< <<USERNAME, JStr(username)>> >>), now)

\* lines 57-59 on the outcome of serializer.loads: the two caught exceptions
\* give None, any other one propagates
username_or_none(data) ==
    IF IsRaise(data)
    THEN IF data.v.kind \in {"BadSignature", "SignatureExpired"} THEN None
         ELSE data
    ELSE dict_get(data.v, USERNAME)

\* faulty variant: an empty username is reported as no username
verify_session_cookie_falsy(cookie_value) ==
    IF username_or_none(serializer_loads(cookie_value, SESSION_MAX_AGE))
           = JStr(<<>>)
    THEN None
    ELSE username_or_none(serializer_loads(cookie_value, SESSION_MAX_AGE))

verify_session_cookie(cookie_value) ==
    username_or_none(serializer_loads(cookie_value, SESSION_MAX_AGE))

\* lines 81-84 on the outcome of verify_session_cookie
checked_username(name) ==
    IF IsRaise(name) THEN name
    ELSE IF name = None \/ name = JStr(<<>>)
         THEN HTTPException(401, <<"Invalid or expired session">>)
    ELSE name

\* Depends(get_current_user): the value returned or the HTTPException raised
get_current_user(session_value) ==
    IF session_value = None \/ session_value = Text(<<>>)
    THEN HTTPException(401, <<"Not authenticated">>)
    ELSE checked_username(verify_session_cookie(session_value))

(***************************************************************************)
(* Driver of the session cookie: logins, the clock, verification           *)
(***************************************************************************)
Identities == {<<>>, <<"a">>, <<"a", "b">>, <<"\"", "\\">>, <<" ">>}

ClockValues ==
    {k * SESSION_MAX_AGE + j : k \in 0..MaxDays, j \in {-1, 0, 1}} \ {-1}

NoLogin == [identity |-> <<>>, at |-> -1, value |-> None]

\* the strings a client can make of a cookie value it was given by changing
\* one part of it: the identity in the payload, the timestamp (by a second,
\* or to the present), the signature (made with another key, or with other
\* spare bits in its last character)
Tampered(tok) ==
    { Signed(compact_dumps(JDict(<< <<USERNAME, JStr(issued.identity \o <<"x">>)>> >>)),
             tok.v.ts, tok.v.sig) }
    \cup { Signed(tok.v.payload, t, tok.v.sig) : t \in {tok.v.ts + 1, now} \ {tok.v.ts} }
    \cup { Signed(tok.v.payload, tok.v.ts,
                  base64_encode(hmac("guessed-key", tok.v.payload, tok.v.ts))),
           Signed(tok.v.payload, tok.v.ts, base64_text(tok.v.sig.mac, 1)) }

\* the cookie values a request can carry: none, an empty or a made-up string,
\* the browser's cookie, the value of the last login kept by the client, or
\* that value with one part changed
Presented ==
    {None, Text(<<>>), Text(<<"z">>), cookie}
    \cup (IF issued = NoLogin THEN {}
          ELSE {issued.value} \cup Tampered(issued.value))

FilterIdle ==
    /\ fpc = "idle"
    /\ fArg = NoValue
    /\ fOut = NoValue
    /\ fOut2 = NoValue
    /\ fDepth = 0
    /\ sfName = <<>>
    /\ sfOut = FALSE

TokenIdle ==
    /\ cookie = None
    /\ issued = NoLogin
    /\ vArg = None
    /\ vAt = -1
    /\ vOut = NoValue
    /\ gOut = NoValue

RelayIdle ==
    /\ rpc = "idle"
    /\ session = None
    /\ authUser = None
    /\ downStatus = 0
    /\ failure = NoValue
    /\ posted = FALSE
    /\ status = 0
    /\ body = <<>>
    /\ upstream = <<>>
    /\ out = <<>>
    /\ clientOpen = FALSE
    /\ responseOpen = FALSE
    /\ errAt = -1
    /\ errMsg = <<>>

TokenInit ==
    /\ REMOVE_SQL_FROM_RESPONSE = FALSE
    /\ now = 0
    /\ TokenIdle
    /\ FilterIdle
    /\ RelayIdle

\* auth.py login, lines 102-111, for a user the lookup accepted
Login ==
    /\ rpc = "idle"
    /\ \E name \in Identities :
          \E cookie_value \in {create_session_cookie(name)} :
              /\ cookie' = cookie_value
              /\ issued' = [identity |-> name, at |-> now,
                            value |-> cookie_value]
    /\ vArg' = None
    /\ vAt' = -1
    /\ vOut' = NoValue
    /\ gOut' = NoValue
    /\ UNCHANGED now
    /\ UNCHANGED <<REMOVE_SQL_FROM_RESPONSE, filterVars, relayVars>>

\* auth.py logout, lines 127-139: the response tells the browser to delete
\* its cookie; nothing else is written
logout ==
    /\ rpc = "idle"
    /\ cookie' = None
    /\ UNCHANGED <<now, issued, vArg, vAt, vOut, gOut>>
    /\ UNCHANGED <<REMOVE_SQL_FROM_RESPONSE, filterVars, relayVars>>

Tick ==
    /\ rpc = "idle"
    /\ \E t \in ClockValues : t > now /\ now' = t
    /\ UNCHANGED <<cookie, issued, vArg, vAt, vOut, gOut>>
    /\ UNCHANGED <<REMOVE_SQL_FROM_RESPONSE, filterVars, relayVars>>

\* verify_session_cookie called on the browser's cookie
Verify ==
    /\ rpc = "idle"
    /\ cookie # None
    /\ vArg' = cookie
    /\ vAt' = now
    /\ vOut' = verify_session_cookie(cookie)
    /\ gOut' = NoValue
    /\ UNCHANGED <<now, cookie, issued>>
    /\ UNCHANGED <<REMOVE_SQL_FROM_RESPONSE, filterVars, relayVars>>

\* a request to a route that depends on get_current_user, such as GET
\* /api/auth/me: line 80 calls verify_session_cookie unless line 78 raised
Guard ==
    /\ rpc = "idle"
    /\ \E session_value \in Presented :
          /\ vArg' = session_value
          /\ vOut' = IF session_value = None \/ session_value = Text(<<>>)
                     THEN NoValue
                     ELSE verify_session_cookie(session_value)
          /\ gOut' = get_current_user(session_value)
    /\ vAt' = now
    /\ UNCHANGED <<now, cookie, issued>>
    /\ UNCHANGED <<REMOVE_SQL_FROM_RESPONSE, filterVars, relayVars>>

TokenNext == Login \/ logout \/ Tick \/ Verify \/ Guard

TokenSpec == TokenInit /\ [][TokenNext]_vars

(***************************************************************************)
(* Driver of the pure functions of agent.py: a JSON tree is built around a *)
(* scalar, one mapping or sequence at a time, and given to the filter      *)
(***************************************************************************)
FilterInit ==
    /\ REMOVE_SQL_FROM_RESPONSE \in BOOLEAN
    /\ fpc = "start"
    /\ fArg \in TopScalars
    /\ fOut = NoValue
    /\ fOut2 = NoValue
    /\ fDepth = 0
    /\ sfName = <<>>
    /\ sfOut = FALSE
    /\ now = 0
    /\ TokenIdle
    /\ RelayIdle

\* the argument is put into a mapping or a sequence
Nest ==
    /\ fpc \in {"start", "arg"}
    /\ fArg = Leaf \/ fDepth > 0
    /\ fDepth < MaxDepth
    /\ fArg' \in Containers({fArg})
    /\ fDepth' = fDepth + 1
    /\ fpc' = "arg"
    /\ UNCHANGED <<fOut, fOut2, sfName, sfOut>>
    /\ UNCHANGED <<REMOVE_SQL_FROM_RESPONSE, tokenVars, relayVars>>

CallFilter ==
    /\ fpc \in {"start", "arg"}
    /\ fOut' = filter_event_data(fArg)
    /\ fpc' = "once"
    /\ UNCHANGED <<fArg, fOut2, fDepth, sfName, sfOut>>
    /\ UNCHANGED <<REMOVE_SQL_FROM_RESPONSE, tokenVars, relayVars>>

\* the second call happens only when the first one returned
CallFilterAgain ==
    /\ fpc = "once"
    /\ ~IsRaise(fOut)
    /\ fOut2' = filter_event_data(fOut)
    /\ fpc' = "twice"
    /\ UNCHANGED <<fArg, fOut, fDepth, sfName, sfOut>>
    /\ UNCHANGED <<REMOVE_SQL_FROM_RESPONSE, tokenVars, relayVars>>

CallShouldFilter ==
    /\ fpc = "start"
    /\ \E name \in FieldNames :
          /\ sfName' = name
          /\ sfOut' = should_filter_field(name)
    /\ fpc' = "field"
    /\ UNCHANGED <<fArg, fOut, fOut2, fDepth>>
    /\ UNCHANGED <<REMOVE_SQL_FROM_RESPONSE, tokenVars, relayVars>>

FilterNext == Nest \/ CallFilter \/ CallFilterAgain \/ CallShouldFilter

FilterSpec == FilterInit /\ [][FilterNext]_vars

(***************************************************************************)
(* agent.py: stream_agent_response and run_agent                           *)
(***************************************************************************)
EVENT == <<"e", "v", "e", "n", "t", ":">>

DATA == <<"d", "a", "t", "a", ":">>

NL == "\n"

ERROR == <<"e", "r", "r", "o", "r">>

\* the chunk yielded for one upstream line, lines 122-141, or the exception
\* that leaves the loop body
Yield(text) == [t |-> "yield", v |-> text]

\* line 133 on the outcome of filter_event_data
yield_filtered(filtered_data) ==
    IF IsRaise(filtered_data) THEN filtered_data
    ELSE Yield(DATA \o <<" ">> \o dumps(filtered_data) \o <<NL>>)

\* lines 129-136 on the outcome of json.loads(data_str)
yield_data(data_str, data) ==
    IF IsRaise(data) THEN Yield(DATA \o <<" ">> \o data_str \o <<NL>>)
    ELSE yield_filtered(filter_event_data(data))

\* lines 128-136
relay_data_line(data_str) == yield_data(data_str, loads(data_str))

relay_line(line) ==
    IF strip(line) # <<>>
    THEN IF startswith(line, EVENT)
         THEN Yield(EVENT \o <<" ">> \o strip(slice_from(line, 6)) \o <<NL>>)
         ELSE IF startswith(line, DATA)
         THEN relay_data_line(strip(slice_from(line, 5)))
         ELSE Yield(line \o <<NL>>)
    ELSE Yield(<<NL>>)

\* the chunk yielded by the handler of httpx.RequestError, line 148
error_chunk(e) ==
    EVENT \o <<" ">> \o ERROR \o <<NL>>
    \o DATA \o <<" ">> \o dumps(JDict(<< <<ERROR, JStr(e)>> >>)) \o <<NL, NL>>

(***************************************************************************)
(* The environment of one request: its cookie, the upstream's answers      *)
(***************************************************************************)
RelayNow == SESSION_MAX_AGE + 1

UserA == <<"a">>

Sessions ==
    { None,
      Text(<<>>),
      Text(<<"z">>),
      serializer_dumps(JDict(<< <<USERNAME, JStr(UserA)>> >>), RelayNow),
      serializer_dumps(JDict(<< <<USERNAME, JStr(UserA)>> >>), 0),
      serializer_dumps(JDict(<< <<USERNAME, JStr(<<>>)>> >>), RelayNow),
      Signed(compact_dumps(JDict(<< <<USERNAME, JStr(UserA)>> >>)), RelayNow,
             base64_text(
                 hmac(SESSION_SECRET_KEY,
                      compact_dumps(JDict(<< <<USERNAME, JStr(UserA)>> >>)),
                      RelayNow), 1)),
      Signed(compact_dumps(JDict(<< <<USERNAME, JStr(UserA)>> >>)), RelayNow,
             base64_encode(
                 hmac("guessed-key",
                      compact_dumps(JDict(<< <<USERNAME, JStr(UserA)>> >>)),
                      RelayNow))) }

Statuses == {200, 201, 500}

Bodies == {<<>>, <<"n", "o">>}

ErrMsgs == {<<>>, <<"r", "s", "t">>}

Lines ==
    { <<>>,
      <<" ">>,
      EVENT \o <<" ", "a">>,
      EVENT \o <<"a", " ">>,
      EVENT \o <<" ">> \o ERROR,
      DATA \o <<" ">> \o dumps(JDict(<< <<sql, JStr(<<"X">>)>>, <<KeyX, JNum(1)>> >>)),
      DATA \o dumps(JDict(<< <<KeyX, JList(<<JList(<<JDict(<< <<sql, JNum(1)>> >>)>>)>>)>> >>)),
      DATA \o <<" ">> \o dumps(JList(<<JNum(1)>>)),
      DATA \o <<"1">>,
      DATA \o <<" ", "n", "j">>,
      DATA \o <<" ", " ", "n", " ", "j", " ">>,
      <<":", " ", "c">> }

RelayInit ==
    /\ REMOVE_SQL_FROM_RESPONSE \in BOOLEAN
    /\ now = RelayNow
    /\ TokenIdle
    /\ FilterIdle
    /\ rpc = "request"
    /\ session \in Sessions
    /\ authUser = None
    /\ downStatus = 0
    /\ failure = NoValue
    /\ posted = FALSE
    /\ status = 0
    /\ body = <<>>
    /\ upstream = <<>>
    /\ out = <<>>
    /\ clientOpen = FALSE
    /\ responseOpen = FALSE
    /\ errAt = -1
    /\ errMsg = <<>>

otherVars == <<REMOVE_SQL_FROM_RESPONSE, filterVars, tokenVars>>

\* the dependency of run_agent is resolved before the handler is called; an
\* HTTPException it raises is answered with its status code
Authenticate ==
    /\ rpc = "request"
    /\ \E r \in {get_current_user(session)} :
          IF IsRaise(r)
          THEN /\ failure' = r
               /\ downStatus' = r.v.status_code
               /\ rpc' = "rejected"
               /\ UNCHANGED authUser
          ELSE /\ authUser' = r
               /\ rpc' = "handler"
               /\ UNCHANGED <<failure, downStatus>>
    /\ UNCHANGED <<session, posted, status, body, upstream, out, clientOpen,
                   responseOpen, errAt, errMsg, otherVars>>

\* run_agent returns a StreamingResponse around the generator object; calling
\* an async generator function runs none of its body
run_agent ==
    /\ rpc = "handler"
    /\ rpc' = "response"
    /\ UNCHANGED <<session, authUser, downStatus, failure, posted, status, body,
                   upstream, out, clientOpen, responseOpen, errAt, errMsg,
                   otherVars>>

\* the StreamingResponse sends its status line and headers, then starts to
\* pull chunks from the generator
StartResponse ==
    /\ rpc = "response"
    /\ downStatus' = 200
    /\ rpc' = "start"
    /\ UNCHANGED <<session, authUser, failure, posted, status, body, upstream,
                   out, clientOpen, responseOpen, errAt, errMsg, otherVars>>

\* lines 101-112: the client is created and the POST answered
PostAnswered ==
    /\ rpc = "start"
    /\ \E code \in Statuses, text \in Bodies :
          /\ code = 200 => text = <<>>
          /\ status' = code
          /\ body' = text
    /\ posted' = TRUE
    /\ clientOpen' = TRUE
    /\ responseOpen' = TRUE
    /\ rpc' = "status"
    /\ UNCHANGED <<session, authUser, downStatus, failure, upstream, out,
                   errAt, errMsg, otherVars>>

\* lines 108-112 raise httpx.RequestError: no response was obtained
PostFailed ==
    /\ rpc = "start"
    /\ \E e \in ErrMsgs : errMsg' = e
    /\ errAt' = Len(out)
    /\ posted' = TRUE
    /\ clientOpen' = TRUE
    /\ rpc' = "except"
    /\ UNCHANGED <<session, authUser, downStatus, failure, status, body,
                   upstream, out, responseOpen, otherVars>>

\* lines 113-118 with the body read: HTTPException leaves both async with
\* blocks and the generator
CheckStatus ==
    /\ rpc = "status"
    /\ IF status # 200
       THEN /\ failure' = HTTPException(status, <<"Cortex API error: ">> \o body)
            /\ responseOpen' = FALSE
            /\ clientOpen' = FALSE
            /\ rpc' = "failed"
       ELSE /\ rpc' = "iter"
            /\ UNCHANGED <<failure, responseOpen, clientOpen>>
    /\ UNCHANGED <<session, authUser, downStatus, posted, status, body,
                   upstream, out, errAt, errMsg, otherVars>>

\* line 114: response.aread() raises httpx.RequestError inside the try block
AreadFailed ==
    /\ rpc = "status"
    /\ status # 200
    /\ \E e \in ErrMsgs : errMsg' = e
    /\ errAt' = Len(out)
    /\ responseOpen' = FALSE
    /\ rpc' = "except"
    /\ UNCHANGED <<session, authUser, downStatus, failure, posted, status,
                   body, upstream, out, clientOpen, otherVars>>

\* line 121: aiter_lines() hands over the next line
NextLine ==
    /\ rpc = "iter"
    /\ Len(upstream) < MaxLines
    /\ \E line \in Lines : upstream' = Append(upstream, line)
    /\ rpc' = "line"
    /\ UNCHANGED <<session, authUser, downStatus, failure, posted, status,
                   body, out, clientOpen, responseOpen, errAt, errMsg,
                   otherVars>>

\* line 121: aiter_lines() is exhausted; both async with blocks are left
EndOfStream ==
    /\ rpc = "iter"
    /\ responseOpen' = FALSE
    /\ clientOpen' = FALSE
    /\ rpc' = "done"
    /\ UNCHANGED <<session, authUser, downStatus, failure, posted, status,
                   body, upstream, out, errAt, errMsg, otherVars>>

\* line 121: aiter_lines() raises httpx.RequestError
ReadFailed ==
    /\ rpc = "iter"
    /\ \E e \in ErrMsgs : errMsg' = e
    /\ errAt' = Len(out)
    /\ responseOpen' = FALSE
    /\ rpc' = "except"
    /\ UNCHANGED <<session, authUser, downStatus, failure, posted, status,
                   body, upstream, out, clientOpen, otherVars>>

\* lines 122-141 for the line just read: a chunk is yielded, or an exception
\* no handler of the generator catches ends it
RelayLine ==
    /\ rpc = "line"
    /\ \E chunk \in {relay_line(upstream[Len(upstream)])} :
          IF IsRaise(chunk)
          THEN /\ failure' = chunk
               /\ responseOpen' = FALSE
               /\ clientOpen' = FALSE
               /\ rpc' = "failed"
               /\ UNCHANGED out
          ELSE /\ out' = Append(out, chunk.v)
               /\ rpc' = "yield"
               /\ UNCHANGED <<failure, responseOpen, clientOpen>>
    /\ UNCHANGED <<session, authUser, downStatus, posted, status, body,
                   upstream, errAt, errMsg, otherVars>>

\* the consumer asks for the next chunk: the generator resumes after a yield
\* of the loop
Resume ==
    /\ rpc = "yield"
    /\ rpc' = "iter"
    /\ UNCHANGED <<session, authUser, downStatus, failure, posted, status,
                   body, upstream, out, clientOpen, responseOpen, errAt,
                   errMsg, otherVars>>

\* lines 143-148: the handler yields the error event
YieldError ==
    /\ rpc = "except"
    /\ out' = Append(out, error_chunk(errMsg))
    /\ rpc' = "error_sent"
    /\ UNCHANGED <<session, authUser, downStatus, failure, posted, status,
                   body, upstream, clientOpen, responseOpen, errAt, errMsg,
                   otherVars>>

\* faulty variant: the handler falls back into the loop of line 121
AfterError_resume ==
    /\ rpc = "error_sent"
    /\ rpc' = "iter"
    /\ UNCHANGED <<session, authUser, downStatus, failure, posted, status,
                   body, upstream, out, clientOpen, responseOpen, errAt,
                   errMsg, otherVars>>

\* the generator resumes after line 148: the client block is left and the
\* generator returns
AfterError ==
    /\ rpc = "error_sent"
    /\ clientOpen' = FALSE
    /\ rpc' = "done"
    /\ UNCHANGED <<session, authUser, downStatus, failure, posted, status,
                   body, upstream, out, responseOpen, errAt, errMsg,
                   otherVars>>

\* the consumer goes away while the generator awaits the upstream (the POST
\* is answered, the body or the next line is being read): the response task
\* is cancelled and CancelledError, which no except clause of the generator
\* names, leaves both async with blocks
CancelInRead ==
    /\ rpc \in {"status", "iter"}
    /\ failure' = Raise("CancelledError")
    /\ responseOpen' = FALSE
    /\ clientOpen' = FALSE
    /\ rpc' = "cancelled"
    /\ UNCHANGED <<session, authUser, downStatus, posted, status, body,
                   upstream, out, errAt, errMsg, otherVars>>

\* the consumer goes away while the generator is suspended at a yield (line
\* 126, 133, 136, 139, 141 or 148): the response task is cancelled in its
\* send, the generator is not resumed and nothing of it runs
DisconnectAtYield ==
    /\ rpc \in {"yield", "error_sent"}
    /\ rpc' = "abandoned"
    /\ UNCHANGED <<session, authUser, downStatus, failure, posted, status,
                   body, upstream, out, clientOpen, responseOpen, errAt,
                   errMsg, otherVars>>

\* faulty variant: the suspended generator is dropped and its blocks never left
Finalize_dropped ==
    /\ rpc = "abandoned"
    /\ rpc' = "closed"
    /\ UNCHANGED <<session, authUser, downStatus, failure, posted, status,
                   body, upstream, out, clientOpen, responseOpen, errAt,
                   errMsg, otherVars>>

\* the event loop finalizes the abandoned generator: aclose() raises
\* GeneratorExit at the yield and the async with blocks of lines 106 and 108
\* are left
Finalize ==
    /\ rpc = "abandoned"
    /\ responseOpen' = FALSE
    /\ clientOpen' = FALSE
    /\ rpc' = "closed"
    /\ UNCHANGED <<session, authUser, downStatus, failure, posted, status,
                   body, upstream, out, errAt, errMsg, otherVars>>

RelayNext ==
    \/ Authenticate
    \/ run_agent
    \/ StartResponse
    \/ PostAnswered
    \/ PostFailed
    \/ CheckStatus
    \/ AreadFailed
    \/ NextLine
    \/ EndOfStream
    \/ ReadFailed
    \/ RelayLine
    \/ Resume
    \/ YieldError
    \/ AfterError
    \/ CancelInRead
    \/ DisconnectAtYield
    \/ Finalize

RelaySpec == RelayInit /\ [][RelayNext]_vars

\* the event loop finalizes every async generator that was dropped while
\* suspended (the finalizer hook of the loop schedules its aclose())
RelayFairSpec == RelaySpec /\ WF_vars(Finalize)

(***************************************************************************)
(* Properties of the field filter                                          *)
(***************************************************************************)
\* the blocked key occurs in some mapping of the tree, at any depth
RECURSIVE HasBlockedKey(_)
HasBlockedKey(tree) ==
    CASE tree.t = "dict" ->
            \E i \in 1..Len(tree.v) :
                tree.v[i][1] = sql \/ HasBlockedKey(tree.v[i][2])
      [] tree.t = "list" -> \E i \in 1..Len(tree.v) : HasBlockedKey(tree.v[i])
      [] OTHER -> FALSE

\* the traversal rule of the design: drop the blocked key in every mapping,
\* filter every element of every sequence, leave scalars as they are
RECURSIVE FieldFilter(_)
FieldFilter(tree) ==
    CASE tree.t = "dict" ->
            LET keep == SelectSeq(tree.v, LAMBDA item : item[1] # sql)
            IN  JDict([i \in 1..Len(keep) |->
                          <<keep[i][1], FieldFilter(keep[i][2])>>])
      [] tree.t = "list" ->
            JList([i \in 1..Len(tree.v) |-> FieldFilter(tree.v[i])])
      [] OTHER -> tree

\* C6 Filter depth coverage: with filtering enabled, filter_event_data of a
\* mapping (its declared parameter type) with nested mappings and sequences
\* returns a tree in which the blocked key occurs at no depth, every other
\* key and every sequence element being kept in place.
C6_FilterDepthCoverage ==
    (fpc = "once" /\ REMOVE_SQL_FROM_RESPONSE /\ fArg.t = "dict")
        => (~HasBlockedKey(fOut) /\ fOut = FieldFilter(fArg))

\* C7 Filter totality: filter_event_data never fails, whether the top-level
\* value is a mapping, a sequence or a scalar, with filtering on or off.
C7_FilterTotal ==
    fpc = "once" => ~IsRaise(fOut)

\* C8 Filter idempotence: for every tree, under both settings of the toggle,
\* filtering returns a tree and filtering that tree again returns it unchanged.
C8_FilterIdempotent ==
    /\ fpc = "once" => (~IsRaise(fOut) /\ ENABLED CallFilterAgain)
    /\ fpc = "twice" => fOut2 = fOut

\* C9 Pass-through mode: with filtering disabled, filter_event_data returns
\* its input unchanged, whatever it contains, and should_filter_field
\* returns false for every field name.
C9_PassThrough ==
    ~REMOVE_SQL_FROM_RESPONSE =>
        /\ fpc \in {"once", "twice"} => fOut = fArg
        /\ fpc = "field" => sfOut = FALSE

\* a tree with the key sql below the top level went through unchanged
C9_Witness ==
    /\ ~REMOVE_SQL_FROM_RESPONSE
    /\ fpc = "once"
    /\ fArg.t = "dict"
    /\ \E i \in 1..Len(fArg.v) : fArg.v[i][1] # sql /\ HasBlockedKey(fArg.v[i][2])
    /\ fOut = fArg

(***************************************************************************)
(* Properties of the relay                                                 *)
(***************************************************************************)
\* the text of a chunk cut at its newlines
RECURSIVE SplitLines(_, _)
SplitLines(text, acc) ==
    IF text = <<>> THEN <<>>
    ELSE IF Head(text) = NL THEN <<acc>> \o SplitLines(Tail(text), <<>>)
    ELSE SplitLines(Tail(text), Append(acc, Head(text)))

\* the value of an SSE field line: the text after the marker, less one space
FieldValue(rest) ==
    IF rest # <<>> /\ Head(rest) = " " THEN Tail(rest) ELSE rest

\* the chunk is one line "data:" + value, and that line alone
IsDataChunk(chunk) ==
    /\ Len(SplitLines(chunk, <<>>)) = 1
    /\ chunk = SplitLines(chunk, <<>>)[1] \o <<NL>>
    /\ startswith(chunk, DATA)

DataValueOfChunk(chunk) == FieldValue(slice_from(SplitLines(chunk, <<>>)[1], 5))

\* the chunk is the event of type error whose data describes e
IsErrorEventOf(chunk, e) ==
    /\ Len(SplitLines(chunk, <<>>)) = 3
    /\ SplitLines(chunk, <<>>)[1] = EVENT \o <<" ">> \o ERROR
    /\ startswith(SplitLines(chunk, <<>>)[2], DATA)
    /\ loads(slice_from(SplitLines(chunk, <<>>)[2], 5))
           = JDict(<< <<ERROR, JStr(e)>> >>)
    /\ SplitLines(chunk, <<>>)[3] = <<>>

\* a chunk of the relay's own making: an event of type error with its data
\* and its closing blank line (a relayed upstream line is a chunk of one line)
IsErrorEvent(chunk) ==
    /\ Len(SplitLines(chunk, <<>>)) = 3
    /\ startswith(SplitLines(chunk, <<>>)[1], EVENT)
    /\ strip(slice_from(SplitLines(chunk, <<>>)[1], 6)) = ERROR

ErrorEvents == {i \in 1..Len(out) : IsErrorEvent(out[i])}

\* the upstream line the relay handled last
LastLine == upstream[Len(upstream)]

LineHandled == rpc \in {"yield", "failed"} /\ upstream # <<>>

\* C1 Pre-flight rejection: whenever the upstream status is not a success
\* status, no chunk is yielded, no upstream line is read, and once the status
\* was looked at the relay has ended with an HTTPException carrying the
\* upstream status code and the upstream body.
C1_PreflightRejection ==
    (status # 0 /\ status \notin 200..299) =>
        /\ out = <<>>
        /\ upstream = <<>>
        /\ rpc # "status" =>
              /\ rpc = "failed"
              /\ failure = HTTPException(status, <<"Cortex API error: ">> \o body)

\* C2 Failure resolution before commit: the downstream status line 200 is
\* sent only after the session check and the upstream status check passed,
\* so no request the upstream rejected has a started event stream.
C2_ChecksBeforeCommit ==
    downStatus = 200 => (authUser # None /\ status = 200)

\* C3 Mid-stream failure: the relay puts at most one error event of its own
\* into a stream and nothing follows it; when the upstream read fails after
\* at least one chunk, the relay yields exactly one more chunk, the error
\* event describing that failure, and ends.
C3_MidStreamFailure ==
    /\ Cardinality(ErrorEvents) <= 1
    /\ \A i \in ErrorEvents : i = Len(out)
    /\ (errAt >= 1 /\ rpc \in {"error_sent", "done"}) =>
          /\ Len(out) = errAt + 1
          /\ IsErrorEventOf(out[Len(out)], errMsg)

\* the read failed after two chunks and the run ended on the error event
C3_Witness ==
    /\ rpc = "done"
    /\ errAt >= 1
    /\ errMsg # <<>>
    /\ Len(out) = errAt + 1
    /\ IsErrorEventOf(out[Len(out)], errMsg)
    /\ ~clientOpen

\* what the design's filter makes of a parsed payload under the configuration
Filtered(tree) == IF REMOVE_SQL_FROM_RESPONSE THEN FieldFilter(tree) ELSE tree

\* C4 Data-line filtering: for an upstream data line whose payload is JSON the
\* relay yields one data line whose payload parses to the filtered payload:
\* no blocked key at any depth, every other field with its value.
C4_DataLineFiltered ==
    (LineHandled /\ startswith(LastLine, DATA)
                 /\ ~IsRaise(loads(slice_from(LastLine, 5)))) =>
        /\ rpc = "yield"
        /\ Len(out) = Len(upstream)
        /\ IsDataChunk(out[Len(out)])
        /\ loads(DataValueOfChunk(out[Len(out)]))
               = Filtered(loads(slice_from(LastLine, 5)))

\* C5 Malformed data line: for an upstream data line whose payload is not
\* JSON the relay yields one data line with the very same payload text and
\* goes on.
C5_MalformedDataUnchanged ==
    (LineHandled /\ startswith(LastLine, DATA)
                 /\ IsRaise(loads(slice_from(LastLine, 5)))) =>
        /\ rpc = "yield"
        /\ Len(out) = Len(upstream)
        /\ IsDataChunk(out[Len(out)])
        /\ DataValueOfChunk(out[Len(out)]) = FieldValue(slice_from(LastLine, 5))

(***************************************************************************)
(* Properties of the session cookie                                        *)
(***************************************************************************)
\* C10 Token round-trip: verifying the cookie a login has just created, at
\* the clock value of its creation, returns the identity given to
\* create_session_cookie, the empty string included.
C10_TokenRoundTrip ==
    (vAt >= 0 /\ vArg = issued.value /\ vAt = issued.at) =>
        vOut = JStr(issued.identity)

\* the cookie of the empty identity was verified at once and gave ""
C10_Witness ==
    /\ vAt >= 0
    /\ vArg = issued.value
    /\ vAt = issued.at
    /\ issued.identity = <<>>
    /\ vOut = JStr(<<>>)

\* verify_session_cookie was called on the value of the last login
VerifiedIssued == vOut # NoValue /\ issued # NoLogin /\ vArg = issued.value

\* C11 Token expiry: verifying an issued token at a later clock value returns
\* None when now - issued_at > SESSION_MAX_AGE and the identity otherwise,
\* never an exception; and a cookie value verify_session_cookie returned None
\* for gets None again at every later clock value.
C11_TokenExpiry ==
    /\ [](VerifiedIssued =>
             vOut = IF vAt - issued.at > SESSION_MAX_AGE
                    THEN None ELSE JStr(issued.identity))
    /\ [][(vArg' = vArg /\ vOut = None /\ vOut' # NoValue) => vOut' = None]_vars

\* a token was verified at the last second of its life and gave its identity
C11_Witness ==
    /\ VerifiedIssued
    /\ issued.at > 0
    /\ vAt - issued.at = SESSION_MAX_AGE
    /\ vOut = JStr(issued.identity)

\* the cookie value is one create_session_cookie returns under the configured
\* secret, for some identity at some clock value
Produced(cookie_value) ==
    \E name \in Identities, t \in ClockValues :
        cookie_value = serializer_dumps(JDict(<< <<USERNAME, JStr(name)>> >>), t)

\* C12 Tamper rejection: verify_session_cookie returns None for every string
\* that differs from an issued token in its identity, its timestamp or its
\* signature part: an identity is returned only for a value that
\* create_session_cookie produced.
C12_TamperRejection ==
    (vOut # NoValue /\ ~Produced(vArg)) => vOut = None

\* the rejection of a request as unauthenticated
Unauthenticated(outcome) == IsRaise(outcome) /\ outcome.v.status_code = 401

\* C13 SessionGuard result: get_current_user fails as unauthenticated when
\* the cookie is absent and when verify_session_cookie returns None, and in
\* every other case returns the identity verify_session_cookie returned,
\* whatever string it is.
C13_GuardResult ==
    gOut # NoValue =>
        IF vOut \in {NoValue, None} THEN Unauthenticated(gOut) ELSE gOut = vOut

\* C14 Failure-reason non-disclosure: any two requests get_current_user
\* rejects, one after the other, are rejected with the same status and the
\* same detail, whatever made the cookie unusable.
C14_SameRejection ==
    [][(IsRaise(gOut) /\ IsRaise(gOut')) => gOut' = gOut]_vars

\* C19 No revocation: after logout, get_current_user still accepts the token
\* of the last login, returning its identity, as long as
\* now - issued_at <= SESSION_MAX_AGE.
C19_NoRevocation ==
    (gOut # NoValue /\ issued # NoLogin /\ cookie = None
        /\ vArg = issued.value /\ vAt - issued.at <= SESSION_MAX_AGE)
    => gOut = JStr(issued.identity)

(***************************************************************************)
(* Properties of the relay: lines, order, authentication, release          *)
(***************************************************************************)
\* C15 Non-data line forwarding: an upstream line that is not empty and
\* starts with neither event: nor data:, a line of whitespace included, is
\* yielded as it is, and the blank line is yielded only for an empty
\* upstream line.
C15_OtherLineVerbatim ==
    (rpc = "yield" /\ upstream # <<>>) =>
        /\ (LastLine # <<>> /\ ~startswith(LastLine, EVENT)
                            /\ ~startswith(LastLine, DATA))
              => out[Len(out)] = LastLine \o <<NL>>
        /\ out[Len(out)] = <<NL>> => LastLine = <<>>

\* C16 Event-line forwarding: for an upstream line that starts with event:
\* the relay yields one line, the marker and the event name exactly as they
\* were received, no character added, removed or changed.
C16_EventLineVerbatim ==
    (LineHandled /\ startswith(LastLine, EVENT)) =>
        /\ rpc = "yield"
        /\ Len(out) = Len(upstream)
        /\ out[Len(out)] = LastLine \o <<NL>>

\* the chunks yielded for upstream lines: all but the relay's own error event
LineChunks ==
    IF errAt >= 0 /\ Len(out) > errAt THEN SubSeq(out, 1, errAt) ELSE out

\* C17 Per-line serialization and order: the relay holds at most one line it
\* has not forwarded, and only between reading it and yielding its chunk;
\* whenever it reads the next line or has ended, every line read has exactly
\* one chunk, and the chunks are in the order of the lines.
C17_OneChunkPerLineInOrder ==
    /\ Len(upstream) - Len(LineChunks) \in {0, 1}
    /\ rpc # "line" => Len(LineChunks) = Len(upstream)
    /\ \A i \in 1..Len(LineChunks) : Yield(LineChunks[i]) = relay_line(upstream[i])

\* the cookie of the request is missing, or is no value create_session_cookie
\* returns, or is one whose age is over
Unusable(session_value) ==
    \/ session_value \in {None, Text(<<>>)}
    \/ ~Produced(session_value)
    \/ now - session_value.v.ts > SESSION_MAX_AGE

\* C18 Authentication precedes upstream dispatch: the upstream POST is
\* issued only after get_current_user returned an identity for the request,
\* and a request whose cookie is missing, tampered with or expired causes no
\* upstream request and gets no chunk.
C18_AuthBeforeDispatch ==
    /\ posted => (authUser # None /\ authUser = get_current_user(session))
    /\ Unusable(session) => (~posted /\ out = <<>>)

\* the generator has finished: it returned, raised, or was closed
Ended == rpc \in {"done", "failed", "cancelled", "closed"}

\* C20 Upstream release on every exit path: a relay run that has ended,
\* whether the stream was exhausted, the status rejected, the transport
\* failed or the consumer went away, holds neither the upstream response nor
\* the HTTP client open; and a run whose consumer went away at a yield does
\* end.
C20_UpstreamReleased ==
    /\ [](Ended => (~clientOpen /\ ~responseOpen))
    /\ (rpc = "abandoned") ~> Ended

\* the consumer went away at a yield of the loop, with the response and the
\* client open, and the run ended with both closed
C20_Witness ==
    /\ rpc = "closed"
    /\ errAt = -1
    /\ out # <<>>
    /\ ~clientOpen
    /\ ~responseOpen

====
